---- MODULE Spec2Model ----
(***************************************************************************)
(* SubfractureWebSocketServer (src/unnamed/part_000): the in-memory brand  *)
(* session store, the clients map with each client's brandId, the HTTP     *)
(* ingestion handlers and the broadcast fan-out.                           *)
(*                                                                         *)
(* Numbers of the source in [0,1] are written in hundredths (0.92 is 92,   *)
(* the 0.05 coherence step is 5, the 1.0 cap is 100).  Client ids, which   *)
(* uuidv4() makes unique, are numbered in the order of connection.  The    *)
(* id and the timestamp that each stored contradiction and gap is given    *)
(* are left out of the records, as are all other timestamps.               *)
(***************************************************************************)
EXTENDS Integers, Sequences, FiniteSets, TLC

VARIABLES
  clients,        \* this.clients: clientId -> [brandId], keys in insertion order
  brandSessions,  \* this.brandSessions: brandId -> session
  readyState,     \* ws.readyState of every connection ever accepted
  nextClientId,   \* uuidv4() for client ids
  pending,        \* HTTP requests received whose handler has not run yet
  events,         \* connections, frames and requests received so far
  out,            \* what the latest step sent and answered
  joined,         \* brandId named by each connection's latest join_brand
  prevJoined,     \* for a live connection, the brandId of the join_brand before that
  created,        \* how many times createBrandSession stored each id
  touched,        \* per session and dimension: the signals applied to it
  findNames, findCategory, findResult,  \* inputs and result of the lookup alone
  observing,      \* whether the three variables below are kept
  accepted,       \* how many POSTs have been answered with success
  calls,          \* per connection, the ws.send calls made for it, in order
  view,           \* per connection, the state its client shows
  bridge,         \* the MCPBridge object, its timers and the child's stdin
  handlers,       \* the bridge's HTTP handlers started so far
  promises,       \* per request id: the promise sendMCPMessage returned
  bridgeOut,      \* what the latest step of the bridge did
  bridgeEvents    \* stdout lines and close events of MCP processes so far

vars == << clients, brandSessions, readyState, nextClientId, pending, events, out,
           joined, prevJoined, created, touched,
           findNames, findCategory, findResult,
           observing, accepted, calls, view,
           bridge, handlers, promises, bridgeOut, bridgeEvents >>

(***************************************************************************)
(* Bounds of the model.                                                    *)
(***************************************************************************)
MaxClients == 2
MaxEvents == 5
MaxPending == 2
StoreEvents == 3
MaxFindDims == 2
SyncEvents == 4
MaxBridgeRequests == 2
MaxBridgeEvents == 2

SessionIds == {"brandA", "brandB"}
\* A brandId that the message or request body does not carry.
Undefined == "undefined"
\* clientInfo.brandId before any join_brand.
Null == "null"
BrandIds == SessionIds \cup {Undefined}
ClientIds == 1..MaxClients

(***************************************************************************)
(* Strings, as String.prototype.toLowerCase and .includes compute them.    *)
(***************************************************************************)
LowerChar(ch) ==
  CASE ch = "A" -> "a" [] ch = "B" -> "b" [] ch = "C" -> "c" [] ch = "D" -> "d"
    [] ch = "E" -> "e" [] ch = "F" -> "f" [] ch = "G" -> "g" [] ch = "H" -> "h"
    [] ch = "I" -> "i" [] ch = "J" -> "j" [] ch = "K" -> "k" [] ch = "L" -> "l"
    [] ch = "M" -> "m" [] ch = "N" -> "n" [] ch = "O" -> "o" [] ch = "P" -> "p"
    [] ch = "Q" -> "q" [] ch = "R" -> "r" [] ch = "S" -> "s" [] ch = "T" -> "t"
    [] ch = "U" -> "u" [] ch = "V" -> "v" [] ch = "W" -> "w" [] ch = "X" -> "x"
    [] ch = "Y" -> "y" [] ch = "Z" -> "z" [] OTHER -> ch

RECURSIVE toLowerCase(_)
toLowerCase(s) ==
  IF Len(s) = 0 THEN ""
  ELSE LowerChar(SubSeq(s, 1, 1)) \o toLowerCase(SubSeq(s, 2, Len(s)))

includes(s, t) ==
  \E i \in 1..(Len(s) - Len(t) + 1) : SubSeq(s, i, i + Len(t) - 1) = t

(***************************************************************************)
(* Signals.  A signal is [category, confidence]; NoCategory is a signal    *)
(* without a category field; NullSignal is a null element of the array.    *)
(***************************************************************************)
NoCategory == "<no category>"
NullSignal == [null |-> TRUE]
Signal(cat, conf) == [category |-> cat, confidence |-> conf]

\* signal.category?.toLowerCase() as the argument of includes: undefined is
\* converted to the string "undefined".
IncludesArg(category) ==
  IF category = NoCategory THEN "undefined" ELSE toLowerCase(category)

\* The predicate of dimensions.find; arg is IncludesArg(category).
DimensionMatches(d, category, arg) ==
  \/ (category # NoCategory /\ d.name = category)
  \/ includes(d.name, arg)

\* Array.prototype.find from index i on: the index of the first element that
\* satisfies the predicate, 0 when none does.
RECURSIVE FindFrom(_, _, _, _)
FindFrom(dimensions, category, arg, i) ==
  IF i > Len(dimensions) THEN 0
  ELSE IF DimensionMatches(dimensions[i], category, arg) THEN i
       ELSE FindFrom(dimensions, category, arg, i + 1)

\* A lookup that falls back to the first dimension.
DimensionFindFirst(dimensions, signal) ==
  LET arg == IncludesArg(signal.category)
      i == FindFrom(dimensions, signal.category, arg, 1)
  IN IF i = 0 /\ Len(dimensions) > 0 THEN 1 ELSE i

DimensionFind(dimensions, signal) ==
  LET arg == IncludesArg(signal.category)
  IN FindFrom(dimensions, signal.category, arg, 1)

CoherenceStep == 5
CoherenceCap == 100

Min(a, b) == IF a <= b THEN a ELSE b

\* UpdateDimension without the Math.min.
UpdateDimensionNoCap(d, signal) ==
  [d EXCEPT !.signalStrength = signal.confidence,
            !.coherence = d.coherence + CoherenceStep]

\* An update that averages the confidence into the signalStrength.
UpdateDimensionAverage(d, signal) ==
  [d EXCEPT !.signalStrength = (d.signalStrength + signal.confidence) \div 2,
            !.coherence = Min(d.coherence + CoherenceStep, CoherenceCap)]

\* The body of the if (dimension) block.
UpdateDimension(d, signal) ==
  [d EXCEPT !.signalStrength = signal.confidence,
            !.coherence = Min(d.coherence + CoherenceStep, CoherenceCap)]

\* signals.forEach(...): the dimensions after the loop, and whether the loop
\* threw (reading .category of a null element is a TypeError; the
\* dimensions updated before it stay updated).
RECURSIVE ApplySignals(_, _)
ApplySignals(dimensions, signals) ==
  IF Len(signals) = 0 THEN [dimensions |-> dimensions, threw |-> FALSE]
  ELSE IF Head(signals) = NullSignal
       THEN [dimensions |-> dimensions, threw |-> TRUE]
       ELSE LET i == DimensionFind(dimensions, Head(signals))
                next == IF i = 0 THEN dimensions
                        ELSE [dimensions EXCEPT
                                ![i] = UpdateDimension(dimensions[i], Head(signals))]
            IN ApplySignals(next, Tail(signals))

(***************************************************************************)
(* Sessions.                                                               *)
(***************************************************************************)
Dimension(n, c, s) == [name |-> n, coherence |-> c, signalStrength |-> s]

generateInitialDimensions ==
  << Dimension("market_position", 92, 85),
     Dimension("value_proposition", 88, 78),
     Dimension("brand_narrative", 75, 82),
     Dimension("emotional_landscape", 85, 90),
     Dimension("visual_identity", 95, 75),
     Dimension("digital_presence", 78, 88),
     Dimension("innovation_capacity", 88, 92) >>

\* cognitiveState of a new session; it has no context field.
NoContext == "<no context>"
EmptyContext == "{}"
DefaultAnalytical == 70
DefaultIntuitive == 70
DefaultEfficiency == 75
DefaultCognitiveState ==
  [analytical |-> DefaultAnalytical, intuitive |-> DefaultIntuitive,
   efficiency |-> DefaultEfficiency, context |-> NoContext]

\* A session made without its id.
NewSessionNoId(brandId) ==
  [id |-> Null,
   dimensions |-> generateInitialDimensions,
   contradictions |-> << >>,
   gaps |-> << >>,
   cognitiveState |-> DefaultCognitiveState]

\* The object literal of createBrandSession.
NewSession(brandId) ==
  [id |-> brandId,
   dimensions |-> generateInitialDimensions,
   contradictions |-> << >>,
   gaps |-> << >>,
   cognitiveState |-> DefaultCognitiveState]

\* session.dialogueLog: the session object has no such property, and
\* nothing gives it one.
DialogueLog(session) ==
  IF "dialogueLog" \in DOMAIN session THEN session.dialogueLog ELSE << >>

\* brandId.substring(0, 8) throws a TypeError when brandId is undefined or
\* null.
CreateThrows(brandId) == brandId \in {Undefined, Null}

\* A set that puts the session under every key of the map.
StoreSetAll(sessions, brandId, session) ==
  [b \in (DOMAIN sessions) \cup {brandId} |-> [session EXCEPT !.id = b]]

\* this.brandSessions.set(brandId, session)
StoreSet(sessions, brandId, session) ==
  [b \in (DOMAIN sessions) \cup {brandId} |->
     IF b = brandId THEN session ELSE sessions[b]]

\* GetOrCreate that calls createBrandSession on every reference.
GetOrCreateAlways(sessions, brandId) ==
  [store |-> StoreSet(sessions, brandId, NewSession(brandId)), fresh |-> TRUE]

\* this.brandSessions.get(brandId) || this.createBrandSession(brandId), for a
\* brandId createBrandSession accepts: the store afterwards, and whether
\* createBrandSession ran.
GetOrCreate(sessions, brandId) ==
  IF brandId \in DOMAIN sessions
  THEN [store |-> sessions, fresh |-> FALSE]
  ELSE [store |-> StoreSet(sessions, brandId, NewSession(brandId)), fresh |-> TRUE]

\* list.map(x => ({...x, id: uuidv4(), detected: new Date()})): a new array
\* with one entry per element, in the same order.
Stamp(list) == [k \in 1..Len(list) |-> [item |-> list[k]]]

(***************************************************************************)
(* Sending.  thr is the set of connections whose ws.send throws in this    *)
(* call (the transport's choice).                                          *)
(***************************************************************************)
\* sendToClient without its try/catch: the exception leaves the function.
SendToClientNoCatch(cl, rs, clientId, thr) ==
  IF clientId \in DOMAIN cl /\ rs[clientId] = "OPEN"
  THEN IF clientId \in thr THEN "raised" ELSE "sent"
  ELSE "skipped"

\* sendToClient: "sent" when ws.send returned, "caught" when it threw and the
\* catch block logged it, "skipped" when the if was false.
SendToClient(cl, rs, clientId, thr) ==
  IF clientId \in DOMAIN cl /\ rs[clientId] = "OPEN"
  THEN IF clientId \in thr THEN "caught" ELSE "sent"
  ELSE "skipped"

\* The filter without the comparison of brandIds (what broadcast() tests).
AddressedAnyBrand(cl, rs, brandId, clientId) ==
  /\ clientId \in DOMAIN cl
  /\ rs[clientId] = "OPEN"

\* The filter of broadcastToBrand's forEach callback.
Addressed(cl, rs, brandId, clientId) ==
  /\ clientId \in DOMAIN cl
  /\ cl[clientId].brandId = brandId
  /\ rs[clientId] = "OPEN"

\* this.clients.forEach from key k on (a Map iterates in insertion order,
\* which is the order of the client ids here).  An exception that leaves
\* sendToClient ends the loop.
RECURSIVE ForEachFrom(_, _, _, _, _)
ForEachFrom(cl, rs, brandId, thr, k) ==
  IF k > MaxClients THEN [delivered |-> {}, failed |-> {}, raised |-> FALSE]
  ELSE IF Addressed(cl, rs, brandId, k)
       THEN LET o == SendToClient(cl, rs, k, thr)
            IN IF o = "raised"
               THEN [delivered |-> {}, failed |-> {k}, raised |-> TRUE]
               ELSE LET rest == ForEachFrom(cl, rs, brandId, thr, k + 1)
                    IN [delivered |-> rest.delivered \cup (IF o = "sent" THEN {k} ELSE {}),
                        failed |-> rest.failed \cup (IF o = "caught" THEN {k} ELSE {}),
                        raised |-> rest.raised]
       ELSE ForEachFrom(cl, rs, brandId, thr, k + 1)

broadcastToBrand(cl, rs, brandId, thr) == ForEachFrom(cl, rs, brandId, thr, 1)

\* The connections a broadcastToBrand(brandId, ...) would address now.
SubscribersOf(brandId) ==
  {c \in ClientIds : Addressed(clients, readyState, brandId, c)}

(***************************************************************************)
(* Request bodies.  An absent array field and an empty array take the same *)
(* branch at every use (signals && signals.length > 0, x?.length || 0), so *)
(* both are written << >>.  Absent is a number field the body lacks.       *)
(***************************************************************************)
Absent == -1

WorkshopBody(b, s, c, g) ==
  [brandId |-> b, signals |-> s, contradictions |-> c, gaps |-> g]

CognitiveBody(b, a, i, e, ctx) ==
  [brandId |-> b, analytical |-> a, intuitive |-> i, efficiency |-> e, context |-> ctx]

NoMessageType == "<no type>"
DialogueBody(b, t) == [brandId |-> b, messageType |-> t]

(***************************************************************************)
(* The handlers, as functions of the state they read.                      *)
(***************************************************************************)
\* Appending to the stored list instead of replacing it.
AppendContradictions(session, list) ==
  [session EXCEPT !.contradictions = @ \o Stamp(list)]

\* brandSession.contradictions = contradictions.map(...)
ReplaceContradictions(session, list) ==
  [session EXCEPT !.contradictions = Stamp(list)]

\* brandSession.gaps = gaps.map(...)
ReplaceGaps(session, list) ==
  [session EXCEPT !.gaps = Stamp(list)]

\* handleWorkshopData up to the broadcast: the store afterwards, whether
\* createBrandSession ran, and whether an exception sent control to the
\* catch block.
WorkshopOutcome(sessions, body) ==
  LET b == body.brandId
  IN IF b \notin DOMAIN sessions /\ CreateThrows(b)
     THEN [store |-> sessions, fresh |-> FALSE, threw |-> TRUE]
     ELSE
       LET look == GetOrCreate(sessions, b)
           s0 == look.store[b]
           sig == IF Len(body.signals) > 0
                  THEN ApplySignals(s0.dimensions, body.signals)
                  ELSE [dimensions |-> s0.dimensions, threw |-> FALSE]
           s1 == [s0 EXCEPT !.dimensions = sig.dimensions]
           s2 == IF Len(body.contradictions) > 0
                 THEN ReplaceContradictions(s1, body.contradictions) ELSE s1
           s3 == IF Len(body.gaps) > 0 THEN ReplaceGaps(s2, body.gaps) ELSE s2
       IN IF sig.threw
          THEN [store |-> [look.store EXCEPT ![b] = s1], fresh |-> look.fresh,
                threw |-> TRUE]
          ELSE [store |-> [look.store EXCEPT ![b] = s3], fresh |-> look.fresh,
                threw |-> FALSE]

\* x || d for a number field: 0 and an absent field are falsy.
OrDefault(x, d) == IF x = Absent \/ x = 0 THEN d ELSE x

\* A cognitiveState that keeps the stored context when the body has none.
NewCognitiveStateKeepContext(session, body) ==
  [analytical |-> OrDefault(body.analytical, DefaultAnalytical),
   intuitive |-> OrDefault(body.intuitive, DefaultIntuitive),
   efficiency |-> OrDefault(body.efficiency, DefaultEfficiency),
   context |-> IF body.context = NoContext THEN session.cognitiveState.context
               ELSE body.context]

\* The object assigned to brandSession.cognitiveState.
NewCognitiveState(session, body) ==
  [analytical |-> OrDefault(body.analytical, DefaultAnalytical),
   intuitive |-> OrDefault(body.intuitive, DefaultIntuitive),
   efficiency |-> OrDefault(body.efficiency, DefaultEfficiency),
   context |-> IF body.context = NoContext THEN EmptyContext ELSE body.context]

\* handleCognitiveState up to the broadcast.
CognitiveOutcome(sessions, body) ==
  LET b == body.brandId
  IN IF b \notin DOMAIN sessions /\ CreateThrows(b)
     THEN [store |-> sessions, fresh |-> FALSE, threw |-> TRUE]
     ELSE LET look == GetOrCreate(sessions, b)
              s0 == look.store[b]
          IN [store |-> [look.store EXCEPT
                           ![b] = [s0 EXCEPT !.cognitiveState = NewCognitiveState(s0, body)]],
              fresh |-> look.fresh, threw |-> FALSE]

\* A join that keeps the brandId of an earlier join.
JoinClientsFirstWins(cl, clientId, brandId) ==
  IF clientId \in DOMAIN cl /\ cl[clientId].brandId = Null
  THEN [cl EXCEPT ![clientId].brandId = brandId] ELSE cl

\* handleJoinBrand up to the send: client.brandId is assigned before the
\* session is looked up.
JoinClients(cl, clientId, brandId) ==
  IF clientId \in DOMAIN cl THEN [cl EXCEPT ![clientId].brandId = brandId] ELSE cl

\* A join that subscribes the connection and sends it nothing.
JoinOutcomeSilent(cl, sessions, clientId, brandId) ==
  IF clientId \notin DOMAIN cl
  THEN [clients |-> cl, store |-> sessions, fresh |-> FALSE, send |-> FALSE]
  ELSE IF brandId \notin DOMAIN sessions /\ CreateThrows(brandId)
       THEN [clients |-> JoinClients(cl, clientId, brandId), store |-> sessions,
             fresh |-> FALSE, send |-> FALSE]
       ELSE LET look == GetOrCreate(sessions, brandId)
            IN [clients |-> JoinClients(cl, clientId, brandId), store |-> look.store,
                fresh |-> look.fresh, send |-> FALSE]

\* handleJoinBrand: what it leaves in clients and brandSessions, whether
\* createBrandSession ran, and whether it reached its sendToClient.
JoinOutcome(cl, sessions, clientId, brandId) ==
  IF clientId \notin DOMAIN cl
  THEN [clients |-> cl, store |-> sessions, fresh |-> FALSE, send |-> FALSE]
  ELSE IF brandId \notin DOMAIN sessions /\ CreateThrows(brandId)
       THEN [clients |-> JoinClients(cl, clientId, brandId), store |-> sessions,
             fresh |-> FALSE, send |-> FALSE]
       ELSE LET look == GetOrCreate(sessions, brandId)
            IN [clients |-> JoinClients(cl, clientId, brandId), store |-> look.store,
                fresh |-> look.fresh, send |-> TRUE]

\* A clientInfo that starts with a brandId.
ClientsSetSubscribed(cl, clientId) ==
  [c \in (DOMAIN cl) \cup {clientId} |->
     IF c = clientId THEN [brandId |-> "brandA"] ELSE cl[c]]

\* this.clients.set(clientId, clientInfo)
ClientsSet(cl, clientId) ==
  [c \in (DOMAIN cl) \cup {clientId} |->
     IF c = clientId THEN [brandId |-> Null] ELSE cl[c]]

\* A close listener that forgets the delete.
ClientsKeep(cl, clientId) == cl

\* this.clients.delete(clientId)
ClientsDelete(cl, clientId) ==
  [c \in (DOMAIN cl) \ {clientId} |-> cl[c]]

\* touched: for every dimension of a session, how many signals of the
\* workshop requests handled so far named it (by the lookup over the names
\* every session is created with, which no handler changes) and the
\* confidence of the latest of them.  A null element ends a request's list.
NoTouches == [i \in 1..Len(generateInitialDimensions) |-> [n |-> 0, last |-> Absent]]

RECURSIVE Touch(_, _)
Touch(t, signals) ==
  IF Len(signals) = 0 \/ Head(signals) = NullSignal THEN t
  ELSE LET i == DimensionFind(generateInitialDimensions, Head(signals))
       IN Touch(IF i = 0 THEN t
                ELSE [t EXCEPT ![i] = [n |-> @.n + 1, last |-> Head(signals).confidence]],
                Tail(signals))

\* created, after a lookup that ran createBrandSession or not.
Counted(brandId, fresh) ==
  IF fresh THEN [created EXCEPT ![brandId] = @ + 1] ELSE created

(***************************************************************************)
(* What a step sent and answered.                                          *)
(***************************************************************************)
NoSend == [delivered |-> {}, failed |-> {}, raised |-> FALSE]
NoMessage == [type |-> "none"]

\* The result of one sendToClient call made outside broadcastToBrand.
Single(clientId, o) ==
  [delivered |-> IF o = "sent" THEN {clientId} ELSE {},
   failed |-> IF o \in {"caught", "raised"} THEN {clientId} ELSE {},
   raised |-> o = "raised"]

\* op: the step; client: the connection it is about (0: none); brandId: the
\* brandId it was given; delivered: the connections ws.send returned for;
\* failed: those it threw for; raised: an exception left sendToClient;
\* status: the HTTP status answered (0: no response); message: what was sent;
\* raced: the request answered had waited while the handler of another
\* workshop request for the same brandId ran.
Out(op, clientId, brandId, sends, status, message) ==
  [op |-> op, client |-> clientId, brandId |-> brandId,
   delivered |-> sends.delivered, failed |-> sends.failed, raised |-> sends.raised,
   status |-> status, message |-> message, raced |-> FALSE]

(***************************************************************************)
(* The other end of the sockets.  A ws.send call is written down as        *)
(* [type, brandId, k, ok]: the message's type and brandId, the number of   *)
(* POSTs answered with success up to and including the one that sent it,   *)
(* and whether the call returned (the frame goes out) or threw.            *)
(***************************************************************************)
\* A socket that hands over the latest frame first.
ReceivedFirst(box, call) == << call >> \o box

\* A socket carries its frames in the order of the ws.send calls.
Received(box, call) == Append(box, call)

\* The calls of one step, added to those of the connections it sent to.
Sent(boxes, o, k) ==
  [c \in ClientIds |->
     IF c \in o.delivered \cup o.failed
     THEN Received(boxes[c], [type |-> o.message.type, brandId |-> o.brandId,
                              k |-> k, ok |-> c \in o.delivered])
     ELSE boxes[c]]

\* A client that has been sent no state yet.
NoView == [id |-> Null]

\* A client replaces what it shows by every brand_state, every
\* workshop_update's newState and every cognitive_update's cognitiveState.
ViewAfter(v, message) ==
  CASE message.type = "brand_state" -> message.state
    [] message.type = "workshop_update" -> message.newState
    [] message.type = "cognitive_update" ->
         IF v = NoView THEN v ELSE [v EXCEPT !.cognitiveState = message.cognitiveState]
    [] OTHER -> v

\* The step whose result is out' is written down.
Observe ==
  LET k == IF out'.op \in {"workshop", "cognitive", "dialogue"} /\ out'.status = 200
           THEN accepted + 1 ELSE accepted
  IN /\ UNCHANGED observing
     /\ accepted' = IF observing THEN k ELSE accepted
     /\ calls' = IF observing THEN Sent(calls, out', k) ELSE calls
     /\ view' = IF observing
                THEN [c \in ClientIds |->
                        IF c \in out'.delivered THEN ViewAfter(view[c], out'.message)
                        ELSE view[c]]
                ELSE view

ObserveUnchanged == UNCHANGED << observing, accepted, calls, view >>

(***************************************************************************)
(* MCPBridge (src/api/mcp-bridge.js): the serverless handler that spawns   *)
(* the MCP process, performs the initialize handshake and turns HTTP       *)
(* requests into tools/call messages.  A step is one task of the event     *)
(* loop together with the promise continuations it makes runnable, which   *)
(* run before the next task.  The MCP process answers any request written  *)
(* to its stdin, any number of times, or never; one stdout line is handled *)
(* per step.                                                               *)
(***************************************************************************)
Child == "child"

NewBridge ==
  [mcpProcess |-> Null, isConnected |-> FALSE, requestId |-> 0,
   pendingRequests |-> {}, timers |-> {}, stdin |-> {}]

NoPromises == [id \in {} |-> [method |-> "", settles |-> 0, by |-> "none"]]
NoHandlers == [h \in {} |-> [route |-> "", pc |-> "done", id |-> 0, status |-> 0]]

BridgeOut(op, id) ==
  [op |-> op, id |-> id, effect |-> "none", started |-> "none", wrote |-> {}]

MapSet(f, k, v) == [x \in DOMAIN f \cup {k} |-> IF x = k THEN v ELSE f[x]]

\* The bridge, the handlers, the promises and the step's record, together.
World(b, h, p, o) == [b |-> b, h |-> h, p |-> p, o |-> o]

\* return res.status(status).json(...) in handler h.
Finish(w, h, status) ==
  [w EXCEPT !.h[h].pc = "done", !.h[h].status = status]

\* setTimeout(..., 10000) in sendMCPMessage.
ArmNoTimer(timers, requestId) == timers

ArmTimer(timers, requestId) == timers \cup {requestId}

\* sendMCPMessage(message) with message.id = id: the promise is rejected at
\* once when no process is set; otherwise the entry is stored, the message
\* written and the timer armed.
SendMCPMessage(w, id, method) ==
  IF w.b.mcpProcess = Null
  THEN [w EXCEPT !.p = MapSet(@, id, [method |-> method, settles |-> 1,
                                     by |-> "not running"])]
  ELSE [w EXCEPT !.p = MapSet(@, id, [method |-> method, settles |-> 0, by |-> "none"]),
                 !.b.pendingRequests = @ \cup {id},
                 !.b.stdin = @ \cup {id},
                 !.b.timers = ArmTimer(@, id),
                 !.o.wrote = @ \cup {method}]

\* The handler's try block after the awaited tool call has settled.
CallSettled(w, h, ok) == Finish(w, h, IF ok THEN 200 ELSE 500)

\* The routes: POST /api/workshop/process calls a tool through callMCPTool
\* (id = ++requestId) and awaits it; the default route answers the health
\* check.
Route(w, h) ==
  IF w.h[h].route = "health" THEN Finish(w, h, 200)
  ELSE LET id == w.b.requestId + 1
           w1 == SendMCPMessage([w EXCEPT !.b.requestId = id], id, "tools/call")
       IN IF id \in w1.b.pendingRequests
          THEN [w1 EXCEPT !.h[h].pc = "callMCPTool", !.h[h].id = id]
          ELSE CallSettled(w1, h, FALSE)

\* startMCPServer after await initializeMCP() has settled, and the handler's
\* if (!started).
StartSettled(w, h, ok) ==
  IF ok
  THEN Route([w EXCEPT !.b.isConnected = TRUE, !.o.started = "true"], h)
  ELSE Finish([w EXCEPT !.o.started = "false"], h, 503)

\* startMCPServer(): true at once when a process is set; otherwise spawn,
\* write initialize (id = ++requestId) and await its promise.
StartMCPServer(w, h) ==
  IF w.b.mcpProcess # Null
  THEN Route([w EXCEPT !.o.started = "true"], h)
  ELSE LET id == w.b.requestId + 1
           w1 == SendMCPMessage([w EXCEPT !.b.mcpProcess = Child, !.b.stdin = {},
                                          !.b.requestId = id], id, "initialize")
       IN [w1 EXCEPT !.h[h].pc = "startMCPServer", !.h[h].id = id]

\* module.exports: ensure the MCP server is running, then route.
Handler(w, h) ==
  IF ~w.b.isConnected THEN StartMCPServer(w, h) ELSE Route(w, h)

\* resolve or reject of promise id is called: a promise that is already
\* settled stays as it is; otherwise the handler awaiting it goes on.
Settle(w, id, ok, by) ==
  LET w1 == [w EXCEPT !.p[id].settles = @ + 1,
                      !.p[id].by = IF w.p[id].settles = 0 THEN by ELSE @]
      waiting == {h \in DOMAIN w.h : w.h[h].pc # "done" /\ w.h[h].id = id}
  IN IF w.p[id].settles # 0 \/ waiting = {} THEN w1
     ELSE LET h == CHOOSE x \in waiting : TRUE
          IN IF w.h[h].pc = "startMCPServer"
             THEN StartSettled(w1, h, ok)
             ELSE CallSettled(w1, h, ok)

\* handleMCPMessage for one line carrying message.id = id: an id without an
\* entry is skipped; otherwise the entry is deleted and the promise rejected
\* when the message has an error, resolved when it has not.
HandleMCPMessage(w, id, isError) ==
  IF id \in w.b.pendingRequests
  THEN Settle([w EXCEPT !.b.pendingRequests = @ \ {id}, !.o.effect = "settled"],
              id, ~isError, "response")
  ELSE [w EXCEPT !.o.effect = "ignored"]

\* A timer callback that rejects without looking at pendingRequests.
TimeoutAlways(pendingRequests, requestId) == TRUE

\* if (this.pendingRequests.has(requestId)) in the timer's callback.
TimeoutSettles(pendingRequests, requestId) == requestId \in pendingRequests

\* The callback of the timer armed for request id.
Timeout(w, id) ==
  LET w0 == [w EXCEPT !.b.timers = @ \ {id}]
  IN IF TimeoutSettles(w.b.pendingRequests, id)
     THEN Settle([w0 EXCEPT !.b.pendingRequests = @ \ {id}, !.o.effect = "settled"],
                 id, FALSE, "timeout")
     ELSE [w0 EXCEPT !.o.effect = "ignored"]

\* mcpProcess.on('close').
Close(w) ==
  [w EXCEPT !.b.isConnected = FALSE, !.b.mcpProcess = Null, !.b.stdin = {}]

\* let mcpBridge = null, then new MCPBridge() by the first request.
BridgeInit ==
  /\ bridge = NewBridge
  /\ handlers = NoHandlers
  /\ promises = NoPromises
  /\ bridgeOut = BridgeOut("init", 0)
  /\ bridgeEvents = 0

ServerUnchanged ==
  UNCHANGED << clients, brandSessions, readyState, nextClientId, pending, events, out,
               joined, prevJoined, created, touched,
               findNames, findCategory, findResult,
               observing, accepted, calls, view >>

BridgeStep(w) ==
  /\ bridge' = w.b
  /\ handlers' = w.h
  /\ promises' = w.p
  /\ bridgeOut' = w.o
  /\ ServerUnchanged

\* An HTTP request reaches the bridge's handler, which runs up to its first
\* await of a pending promise, or to its response.
BridgeRequest(route) ==
  /\ Cardinality(DOMAIN handlers) < MaxBridgeRequests
  /\ LET h == Cardinality(DOMAIN handlers) + 1
         arrived == [route |-> route, pc |-> "done", id |-> 0, status |-> 0]
     IN BridgeStep(Handler(World(bridge, MapSet(handlers, h, arrived), promises,
                                 BridgeOut("request", h)), h))
  /\ UNCHANGED bridgeEvents

\* mcpProcess.stdout.on('data') with one line: the process answers a request
\* written to its stdin, with a result or with an error.
StdoutData(id, isError) ==
  /\ bridgeEvents < MaxBridgeEvents
  /\ bridge.mcpProcess # Null
  /\ id \in bridge.stdin
  /\ bridgeEvents' = bridgeEvents + 1
  /\ BridgeStep(HandleMCPMessage(World(bridge, handlers, promises,
                                       BridgeOut("data", id)), id, isError))

\* Ten seconds after sendMCPMessage wrote request id.
TimerFires(id) ==
  /\ id \in bridge.timers
  /\ UNCHANGED bridgeEvents
  /\ BridgeStep(Timeout(World(bridge, handlers, promises, BridgeOut("timeout", id)), id))

\* The MCP process exits.
ProcessClose ==
  /\ bridgeEvents < MaxBridgeEvents
  /\ bridge.mcpProcess # Null
  /\ bridgeEvents' = bridgeEvents + 1
  /\ BridgeStep(Close(World(bridge, handlers, promises, BridgeOut("close", 0))))

BridgeRoutes == {"workshop", "health"}
RequestIds == 1..(2 * MaxBridgeRequests)

BridgeNext ==
  \/ \E route \in BridgeRoutes : BridgeRequest(route)
  \/ \E id \in RequestIds, isError \in BOOLEAN : StdoutData(id, isError)
  \/ \E id \in RequestIds : TimerFires(id)
  \/ ProcessClose

(***************************************************************************)
(* The state after construction, and the steps.                            *)
(***************************************************************************)
Init ==
  /\ clients = [c \in {} |-> [brandId |-> Null]]
  /\ brandSessions = [b \in {} |-> NewSession(b)]
  /\ readyState = [c \in ClientIds |-> "NONE"]
  /\ nextClientId = 1
  /\ pending = {}
  /\ events = 0
  /\ out = Out("init", 0, Null, NoSend, 0, NoMessage)
  /\ joined = [c \in ClientIds |-> Null]
  /\ prevJoined = [c \in ClientIds |-> Null]
  /\ created = [b \in SessionIds |-> 0]
  /\ touched = [b \in SessionIds |-> NoTouches]
  /\ findNames = << >>
  /\ findCategory = ""
  /\ findResult = 0
  /\ observing = FALSE
  /\ accepted = 0
  /\ calls = [c \in ClientIds |-> << >>]
  /\ view = [c \in ClientIds |-> NoView]
  /\ BridgeInit

FindUnchanged == UNCHANGED << findNames, findCategory, findResult >>
BridgeUnchanged == UNCHANGED << bridge, handlers, promises, bridgeOut, bridgeEvents >>
JoinUnchanged == UNCHANGED << joined, prevJoined >>
StoreUnchanged == UNCHANGED << brandSessions, created, touched >>

\* wss.on('connection'): the client is registered and greeted.
Connect(thr) ==
  /\ events' = events + 1
  /\ LET clientId == nextClientId
         cl == ClientsSet(clients, clientId)
         rs == [readyState EXCEPT ![clientId] = "OPEN"]
     IN /\ clients' = cl
        /\ readyState' = rs
        /\ out' = Out("connect", clientId, Null,
                      Single(clientId, SendToClient(cl, rs, clientId, thr)), 0,
                      [type |-> "welcome", clientId |-> clientId])
  /\ nextClientId' = nextClientId + 1
  /\ UNCHANGED pending
  /\ StoreUnchanged /\ JoinUnchanged /\ FindUnchanged /\ BridgeUnchanged
  /\ Observe

\* ws.on('message') with a join_brand message.
JoinBrand(clientId, brandId, thr) ==
  /\ readyState[clientId] = "OPEN"
  /\ events' = events + 1
  /\ LET o == JoinOutcome(clients, brandSessions, clientId, brandId)
     IN /\ clients' = o.clients
        /\ brandSessions' = o.store
        /\ created' = Counted(brandId, o.fresh)
        /\ UNCHANGED touched
        /\ out' = IF o.send
                  THEN Out("join", clientId, brandId,
                           Single(clientId,
                                  SendToClient(o.clients, readyState, clientId, thr)), 0,
                           [type |-> "brand_state", brandId |-> brandId,
                            state |-> o.store[brandId]])
                  ELSE Out("join", clientId, brandId, NoSend, 0, NoMessage)
  /\ joined' = [joined EXCEPT ![clientId] = brandId]
  /\ prevJoined' = [prevJoined EXCEPT ![clientId] = joined[clientId]]
  /\ UNCHANGED << readyState, nextClientId, pending >>
  /\ FindUnchanged /\ BridgeUnchanged
  /\ Observe

\* ws.on('message') with any other message: update_dimension,
\* trigger_refinement and ai_query call methods the class does not define (a
\* TypeError the listener's catch logs), an unknown type is logged, and a
\* frame that is not JSON is logged.  Nothing is sent and nothing changes.
OtherMessage(clientId) ==
  /\ readyState[clientId] = "OPEN"
  /\ UNCHANGED vars

\* The peer starts closing, or the connection drops: readyState leaves OPEN
\* before the close event is emitted.
SocketClosing(clientId) ==
  /\ readyState[clientId] = "OPEN"
  /\ readyState' = [readyState EXCEPT ![clientId] = "CLOSING"]
  /\ out' = Out("closing", clientId, Null, NoSend, 0, NoMessage)
  /\ UNCHANGED << clients, nextClientId, pending, events >>
  /\ StoreUnchanged /\ JoinUnchanged /\ FindUnchanged /\ BridgeUnchanged /\ ObserveUnchanged

\* ws.on('close')
OnClose(clientId) ==
  /\ readyState[clientId] \in {"OPEN", "CLOSING"}
  /\ readyState' = [readyState EXCEPT ![clientId] = "CLOSED"]
  /\ clients' = ClientsDelete(clients, clientId)
  /\ out' = Out("close", clientId,
                IF clientId \in DOMAIN clients THEN clients[clientId].brandId ELSE Null,
                NoSend, 0, NoMessage)
  /\ prevJoined' = [prevJoined EXCEPT ![clientId] = Null]
  /\ UNCHANGED << nextClientId, pending, events, joined >>
  /\ StoreUnchanged /\ FindUnchanged /\ BridgeUnchanged /\ ObserveUnchanged

\* The lowest request slot that is free.
FreeSlot == CHOOSE n \in 1..MaxPending :
              /\ \A r \in pending : r.n # n
              /\ \A m \in 1..(n - 1) : \E r \in pending : r.n = m

\* An HTTP POST arrives; express.json() reads its body before the route's
\* handler is called, so several requests can be waiting at once and their
\* handlers can run in any order.
Receive(kind, body) ==
  /\ Cardinality(pending) < MaxPending
  /\ events' = events + 1
  /\ pending' = pending \cup {[n |-> FreeSlot, kind |-> kind, body |-> body,
                                raced |-> FALSE]}
  /\ out' = Out("receive", 0, Null, NoSend, 0, NoMessage)
  /\ UNCHANGED << clients, readyState, nextClientId >>
  /\ StoreUnchanged /\ JoinUnchanged /\ FindUnchanged /\ BridgeUnchanged /\ ObserveUnchanged

\* q is a workshop request for the same brandId that is waiting while r's
\* handler runs; q.raced records that this happened to q.
Overlaps(q, r) ==
  q # r /\ q.kind = "workshop" /\ r.kind = "workshop" /\ q.body.brandId = r.body.brandId

\* POST /api/workshop/process.  The handler has no await: it runs from its
\* first line to its response without another callback between.
HandleWorkshopData(r, thr) ==
  /\ r \in pending /\ r.kind = "workshop"
  /\ pending' = {IF Overlaps(q, r) THEN [q EXCEPT !.raced = TRUE] ELSE q :
                   q \in pending \ {r}}
  /\ LET b == r.body.brandId
         o == WorkshopOutcome(brandSessions, r.body)
         bc == broadcastToBrand(clients, readyState, b, thr)
     IN /\ brandSessions' = o.store
        /\ created' = Counted(b, o.fresh)
        /\ touched' = IF b \in SessionIds
                      THEN [touched EXCEPT ![b] = Touch(@, r.body.signals)]
                      ELSE touched
        /\ out' = [(IF o.threw
                    THEN Out("workshop", 0, b, NoSend, 500, NoMessage)
                    ELSE Out("workshop", 0, b, bc, IF bc.raised THEN 500 ELSE 200,
                             [type |-> "workshop_update", brandId |-> b,
                              updates |-> [signals |-> Len(r.body.signals),
                                           contradictions |-> Len(r.body.contradictions),
                                           gaps |-> Len(r.body.gaps)],
                              newState |-> o.store[b]]))
                   EXCEPT !.raced = r.raced]
  /\ UNCHANGED << clients, readyState, nextClientId, events >>
  /\ JoinUnchanged /\ FindUnchanged /\ BridgeUnchanged
  /\ Observe

\* POST /api/ai/cognitive-state
HandleCognitiveState(r, thr) ==
  /\ r \in pending /\ r.kind = "cognitive"
  /\ pending' = pending \ {r}
  /\ LET b == r.body.brandId
         o == CognitiveOutcome(brandSessions, r.body)
         bc == broadcastToBrand(clients, readyState, b, thr)
     IN /\ brandSessions' = o.store
        /\ created' = Counted(b, o.fresh)
        /\ UNCHANGED touched
        /\ out' = IF o.threw
                  THEN Out("cognitive", 0, b, NoSend, 500, NoMessage)
                  ELSE Out("cognitive", 0, b, bc, IF bc.raised THEN 500 ELSE 200,
                           [type |-> "cognitive_update", brandId |-> b,
                            cognitiveState |-> o.store[b].cognitiveState])
  /\ UNCHANGED << clients, readyState, nextClientId, events >>
  /\ JoinUnchanged /\ FindUnchanged /\ BridgeUnchanged
  /\ Observe

\* POST /api/refinement/dialogue: the store is not touched.
HandleRefinementDialogue(r, thr) ==
  /\ r \in pending /\ r.kind = "dialogue"
  /\ pending' = pending \ {r}
  /\ LET b == r.body.brandId
         bc == broadcastToBrand(clients, readyState, b, thr)
     IN out' = Out("dialogue", 0, b, bc, IF bc.raised THEN 500 ELSE 200,
                   [type |-> "dialogue_message", brandId |-> b,
                    dialogue |-> [messageType |->
                                    IF r.body.messageType = NoMessageType
                                    THEN "question" ELSE r.body.messageType]])
  /\ UNCHANGED << clients, readyState, nextClientId, events >>
  /\ StoreUnchanged /\ JoinUnchanged /\ FindUnchanged /\ BridgeUnchanged
  /\ Observe

\* GET /api/brand/:id/state; the id is a path segment, hence a string.
GetBrandState(brandId) ==
  /\ events' = events + 1
  /\ LET look == GetOrCreate(brandSessions, brandId)
     IN /\ brandSessions' = look.store
        /\ created' = Counted(brandId, look.fresh)
        /\ UNCHANGED touched
        /\ out' = Out("get", 0, brandId, NoSend, 200,
                      [type |-> "snapshot", state |-> look.store[brandId]])
  /\ UNCHANGED << clients, readyState, nextClientId, pending >>
  /\ JoinUnchanged /\ FindUnchanged /\ BridgeUnchanged /\ ObserveUnchanged

\* The connections whose ws.send may throw in a step.
Throwers == SUBSET {c \in ClientIds : readyState[c] = "OPEN"}

\* The steps the server can take when the POST bodies it is sent are drawn
\* from W (workshop), G (cognitive-state) and D (dialogue), the connections
\* it accepts are those of C, and it is sent at most n connections, frames
\* and requests.
Step(W, G, D, C, n) ==
  \/ \E thr \in SUBSET {nextClientId} :
        events < n /\ nextClientId \in C /\ Connect(thr)
  \/ \E c \in ClientIds, b \in BrandIds :
        \E thr \in SUBSET {c} : events < n /\ JoinBrand(c, b, thr)
  \/ \E c \in ClientIds : OtherMessage(c)
  \/ \E c \in ClientIds : SocketClosing(c)
  \/ \E c \in ClientIds : OnClose(c)
  \/ \E body \in W : events < n /\ Receive("workshop", body)
  \/ \E body \in G : events < n /\ Receive("cognitive", body)
  \/ \E body \in D : events < n /\ Receive("dialogue", body)
  \/ \E r \in pending, thr \in Throwers : HandleWorkshopData(r, thr)
  \/ \E r \in pending, thr \in Throwers : HandleCognitiveState(r, thr)
  \/ \E r \in pending, thr \in Throwers : HandleRefinementDialogue(r, thr)
  \/ \E b \in SessionIds : events < n /\ GetBrandState(b)

\* Fan-out: few bodies.
RoutingWorkshop ==
  { WorkshopBody("brandA", << Signal("market_position", 92) >>, << "c1" >>, << >>) }
RoutingCognitive == { CognitiveBody("brandB", 30, Absent, 0, "ctx1") }
RoutingDialogue ==
  { DialogueBody("brandA", "answer"), DialogueBody(Undefined, NoMessageType) }

Next == Step(RoutingWorkshop, RoutingCognitive, RoutingDialogue, ClientIds, MaxEvents)

Spec == Init /\ [][Next]_vars

\* The store: bodies that exercise the signal lookup, the coherence cap, the
\* contradiction and gap lists and the failure paths.
StoreWorkshop ==
  { WorkshopBody("brandA", << Signal("market_position", 92) >>, << "c1" >>, << >>),
    WorkshopBody("brandA", << Signal("IDENTITY", 60), Signal("pricing", 10) >>,
                 << "c2", "c3" >>, << "g1" >>),
    WorkshopBody("brandA", << Signal("visual_identity", 40), Signal(NoCategory, 20) >>,
                 << >>, << "g2" >>),
    WorkshopBody("brandA", << Signal("position", 30), NullSignal,
                              Signal("brand_narrative", 99) >>, << "c4" >>, << >>),
    WorkshopBody(Undefined, << >>, << "c1" >>, << >>) }
StoreCognitive ==
  { CognitiveBody("brandA", 30, Absent, 0, "ctx1"),
    CognitiveBody("brandA", Absent, 40, Absent, NoContext) }
StoreDialogue == { DialogueBody("brandB", "answer") }

StoreClientIds == {1}

StoreNext ==
  Step(StoreWorkshop, StoreCognitive, StoreDialogue, StoreClientIds, StoreEvents)

SpecStore == Init /\ [][StoreNext]_vars

\* The clients' side kept: requests for one session, among them one whose
\* signals end in a null element.
SyncWorkshop ==
  { WorkshopBody("brandA", << Signal("market_position", 92) >>, << "c1" >>, << >>),
    WorkshopBody("brandA", << Signal("position", 30), NullSignal >>, << "c4" >>, << >>) }
SyncCognitive == { CognitiveBody("brandA", 30, Absent, 0, "ctx1") }
SyncDialogue == { DialogueBody("brandA", "answer") }

SyncInit ==
  /\ clients = [c \in {} |-> [brandId |-> Null]]
  /\ brandSessions = [b \in {} |-> NewSession(b)]
  /\ readyState = [c \in ClientIds |-> "NONE"]
  /\ nextClientId = 1
  /\ pending = {}
  /\ events = 0
  /\ out = Out("init", 0, Null, NoSend, 0, NoMessage)
  /\ joined = [c \in ClientIds |-> Null]
  /\ prevJoined = [c \in ClientIds |-> Null]
  /\ created = [b \in SessionIds |-> 0]
  /\ touched = [b \in SessionIds |-> NoTouches]
  /\ findNames = << >>
  /\ findCategory = ""
  /\ findResult = 0
  /\ observing = TRUE
  /\ accepted = 0
  /\ calls = [c \in ClientIds |-> << >>]
  /\ view = [c \in ClientIds |-> NoView]
  /\ BridgeInit

SyncClientIds == {1, 2}

SyncNext == Step(SyncWorkshop, SyncCognitive, SyncDialogue, SyncClientIds, SyncEvents)

SpecSync == SyncInit /\ [][SyncNext]_vars

\* Signals that match no dimension, before, between and after ones that do,
\* and requests whose brandId is null or missing.
SignalsWorkshop ==
  { WorkshopBody("brandA", << Signal("pricing", 10), Signal("market_position", 92) >>,
                 << >>, << >>),
    WorkshopBody("brandA", << Signal(NoCategory, 20), Signal("IDENTITY", 60),
                              Signal("pricing", 10) >>, << >>, << >>),
    WorkshopBody("brandA", << Signal("market_position", 92) >>, << >>, << >>),
    WorkshopBody("brandA", << Signal("visual_identity", 40) >>, << >>, << >>),
    WorkshopBody(Null, << >>, << "c1" >>, << >>) }
SignalsCognitive == { CognitiveBody(Null, 30, Absent, 0, "ctx1") }
SignalsDialogue ==
  { DialogueBody(Null, "answer"), DialogueBody(Undefined, NoMessageType),
    DialogueBody("brandA", "answer") }

SignalsNext ==
  Step(SignalsWorkshop, SignalsCognitive, SignalsDialogue, StoreClientIds, StoreEvents)

SpecSignals == Init /\ [][SignalsNext]_vars

(***************************************************************************)
(* The dimension lookup alone, over any ordered list of distinct names.    *)
(***************************************************************************)
FindNamePool == {"a", "b", "ab", "ba", "A", "aB"}
FindCategories == FindNamePool \cup {"", NoCategory}
NotRun == -1

\* The lists of at most n distinct names.
RECURSIVE NameLists(_)
NameLists(n) ==
  IF n = 0 THEN { << >> }
  ELSE LET shorter == NameLists(n - 1)
       IN shorter \cup
          { Append(l, x) : l \in {m \in shorter : Len(m) = n - 1},
                           x \in FindNamePool }

Distinct(l) == \A i, j \in 1..Len(l) : i # j => l[i] # l[j]

FindInit ==
  /\ clients = [c \in {} |-> [brandId |-> Null]]
  /\ brandSessions = [b \in {} |-> NewSession(b)]
  /\ readyState = [c \in ClientIds |-> "NONE"]
  /\ nextClientId = 1
  /\ pending = {}
  /\ events = 0
  /\ out = Out("init", 0, Null, NoSend, 0, NoMessage)
  /\ joined = [c \in ClientIds |-> Null]
  /\ prevJoined = [c \in ClientIds |-> Null]
  /\ created = [b \in SessionIds |-> 0]
  /\ touched = [b \in SessionIds |-> NoTouches]
  /\ findNames \in {l \in NameLists(MaxFindDims) : Distinct(l)}
  /\ findCategory \in FindCategories
  /\ findResult = NotRun
  /\ observing = FALSE
  /\ accepted = 0
  /\ calls = [c \in ClientIds |-> << >>]
  /\ view = [c \in ClientIds |-> NoView]
  /\ BridgeInit

\* session.dimensions.find(...) for one signal.
FindRun ==
  /\ findResult = NotRun
  /\ findResult' = DimensionFind([k \in 1..Len(findNames) |->
                                    Dimension(findNames[k], 50, 50)],
                                 Signal(findCategory, 50))
  /\ UNCHANGED << clients, brandSessions, readyState, nextClientId, pending, events,
                  out, joined, prevJoined, created, touched, findNames, findCategory,
                  observing, accepted, calls, view >>
  /\ BridgeUnchanged

FindNext == FindRun

SpecFind == FindInit /\ [][FindNext]_vars

\* The bridge alone.
SpecBridge == Init /\ [][BridgeNext]_vars

\* A timer that is armed fires.
SpecBridgeFair == SpecBridge /\ \A id \in RequestIds : WF_vars(TimerFires(id))

(***************************************************************************)
(* Properties.                                                             *)
(***************************************************************************)
\* The latest step called broadcastToBrand(out.brandId, out.message).
Broadcast == out.op \in {"workshop", "cognitive", "dialogue"} /\ out.message # NoMessage

\* The registry's subscriber set of a session: the clients entries whose
\* brandId is that session's id.
Subscribed(brandId) == {c \in DOMAIN clients : clients[c].brandId = brandId}

\* C1: a broadcastToBrand(A, m) hands m to every connection whose latest
\* join_brand named A and whose socket is open and takes the send, and to no
\* connection whose latest join_brand named another id (or that never
\* joined).
C1_Routing ==
  Broadcast =>
    \A c \in ClientIds :
      /\ (joined[c] = out.brandId /\ readyState[c] = "OPEN" /\ c \notin out.failed)
           => c \in out.delivered
      /\ joined[c] # out.brandId => c \notin out.delivered

C1_Witness ==
  /\ Broadcast
  /\ \E c1, c2 \in ClientIds :
       /\ c1 \in out.delivered
       /\ joined[c2] \in SessionIds \ {out.brandId}
       /\ readyState[c2] = "OPEN"

\* C2: once a connection's close event has fired it is in no session's
\* subscriber set and no broadcast reaches it, and the clients map holds
\* exactly the connections accepted and not yet closed.
C2_NoLeak ==
  \A c \in ClientIds :
    /\ readyState[c] = "CLOSED" =>
         /\ c \notin DOMAIN clients
         /\ \A b \in BrandIds : c \notin Subscribed(b)
         /\ c \notin out.delivered \cup out.failed
    /\ c \in DOMAIN clients <=> readyState[c] \in {"OPEN", "CLOSING"}

C2_Witness ==
  /\ Broadcast
  /\ out.delivered # {}
  /\ \E c \in ClientIds : readyState[c] = "CLOSED" /\ joined[c] = out.brandId

C8_OneSession ==
  \A c \in DOMAIN clients :
    /\ Cardinality({b \in BrandIds : c \in Subscribed(b)}) <= 1
    /\ joined[c] # Null => c \in Subscribed(joined[c])
    /\ (joined[c] # Null /\ readyState[c] = "OPEN") => c \in SubscribersOf(joined[c])
    /\ prevJoined[c] \notin {Null, joined[c]} =>
         /\ c \notin Subscribed(prevJoined[c])
         /\ (Broadcast /\ out.brandId = prevJoined[c]) => c \notin out.delivered

C8_Witness ==
  /\ Broadcast
  /\ out.brandId = "brandA"
  /\ \E c \in DOMAIN clients :
       /\ prevJoined[c] = "brandA"
       /\ joined[c] = "brandB"
       /\ readyState[c] = "OPEN"
       /\ c \notin out.delivered

\* C9: in a broadcast where the send to one subscriber fails (its socket is
\* not open, or ws.send throws), every other subscriber whose socket is open
\* and takes the send still gets the message.
C9_Independent ==
  (Broadcast /\ (out.failed # {} \/
                 \E c \in Subscribed(out.brandId) : readyState[c] # "OPEN"))
    => \A c \in Subscribed(out.brandId) :
         (readyState[c] = "OPEN" /\ c \notin out.failed) => c \in out.delivered

C9_Witness ==
  /\ Broadcast
  /\ \E f \in out.failed, d \in out.delivered : f < d

\* C10, as claimed: after a broadcast, a subscriber the delivery failed for
\* (ws.send threw, or the socket was not open) is no longer in the registry.
C10_SelfHealing ==
  Broadcast =>
    /\ \A c \in out.failed : c \notin DOMAIN clients
    /\ \A c \in Subscribed(out.brandId) : readyState[c] = "OPEN"

\* The strings of a stored contradictions or gaps list.
Items(list) == [k \in 1..Len(list) |-> list[k].item]

\* The step handles request r: r leaves the requests in flight.
Handled(r) ==
  /\ r \in pending
  /\ Cardinality(pending') = Cardinality(pending) - 1
  /\ \A q \in pending' : q.n # r.n

\* C3: whatever the order in which handleWorkshopData runs for requests in
\* flight at the same time, no signal's update is lost: every dimension's
\* coherence is its initial value plus one step per signal applied to it
\* (up to the cap) and its signalStrength is the confidence of the last
\* signal applied to it, for signals on different dimensions and on the same.
C3_NoLostUpdate ==
  \A s \in DOMAIN brandSessions :
    /\ Len(brandSessions[s].dimensions) = Len(generateInitialDimensions)
    /\ \A i \in 1..Len(generateInitialDimensions) :
         LET d  == brandSessions[s].dimensions[i]
             d0 == generateInitialDimensions[i]
             t  == touched[s][i]
         IN /\ d.name = d0.name
            /\ d.coherence = Min(d0.coherence + CoherenceStep * t.n, CoherenceCap)
            /\ d.signalStrength = IF t.n = 0 THEN d0.signalStrength ELSE t.last

C3_Witness ==
  /\ out.op = "workshop"
  /\ out.raced
  /\ out.status = 200
  /\ out.brandId = "brandA"
  /\ \E i, j \in 1..Len(generateInitialDimensions) :
       /\ i # j
       /\ touched["brandA"][i].n = 1
       /\ touched["brandA"][j].n >= 2

\* C5: no stored dimension's coherence exceeds 1.0, however many signals
\* have been applied to it.
C5_CoherenceCap ==
  \A s \in DOMAIN brandSessions :
    \A i \in 1..Len(brandSessions[s].dimensions) :
      brandSessions[s].dimensions[i].coherence <= CoherenceCap

C5_Witness ==
  \E s \in DOMAIN brandSessions :
    \E i \in 1..Len(brandSessions[s].dimensions) :
      /\ brandSessions[s].dimensions[i].coherence = CoherenceCap
      /\ generateInitialDimensions[i].coherence + CoherenceStep * touched[s][i].n
           > CoherenceCap

\* C6, as claimed: after a workshop request answered with success, the stored
\* contradictions are exactly the entries of the request's contradictions
\* list, an empty list included, and the stored gaps those of its gaps list.
C6_ReplaceAlways ==
  [][\A r \in pending :
       (Handled(r) /\ r.kind = "workshop" /\ out'.op = "workshop" /\ out'.status = 200)
         => /\ Items(brandSessions'[r.body.brandId].contradictions) = r.body.contradictions
            /\ Items(brandSessions'[r.body.brandId].gaps) = r.body.gaps]_vars

\* C6: after a workshop request answered with success, a non-empty
\* contradictions list of the request has replaced the stored one (nothing
\* of the earlier list remains), while an empty list leaves the stored
\* contradictions as they were; the same for gaps.
C6_ReplaceNonEmpty ==
  [][\A r \in pending :
       (Handled(r) /\ r.kind = "workshop" /\ out'.op = "workshop" /\ out'.status = 200)
         => LET b == r.body.brandId
                oldC == IF b \in DOMAIN brandSessions
                        THEN Items(brandSessions[b].contradictions) ELSE << >>
                oldG == IF b \in DOMAIN brandSessions
                        THEN Items(brandSessions[b].gaps) ELSE << >>
            IN /\ Items(brandSessions'[b].contradictions) =
                    IF Len(r.body.contradictions) > 0 THEN r.body.contradictions ELSE oldC
               /\ Items(brandSessions'[b].gaps) =
                    IF Len(r.body.gaps) > 0 THEN r.body.gaps ELSE oldG]_vars

C6_Witness ==
  /\ out.op = "workshop"
  /\ out.status = 200
  /\ "brandA" \in DOMAIN brandSessions
  /\ Items(brandSessions["brandA"].contradictions) = << "c1" >>
  /\ Items(brandSessions["brandA"].gaps) = << "g1" >>

PublishTypes == {"workshop_update", "cognitive_update", "dialogue_message"}

C12_NoReplay ==
  /\ \A c \in ClientIds :
       \A j \in 1..Len(calls[c]) :
         (calls[c][j].type \in PublishTypes /\ calls[c][j].brandId \in SessionIds)
           => \E i \in 1..(j - 1) :
                /\ calls[c][i].type = "brand_state"
                /\ calls[c][i].brandId = calls[c][j].brandId
                /\ calls[c][i].k < calls[c][j].k
                /\ \A m \in (i + 1)..(j - 1) : calls[c][m].type # "brand_state"
  /\ out.op = "join" =>
       /\ out.message.type \in {"brand_state", "none"}
       /\ out.delivered \cup out.failed \subseteq {out.client}

C12_Witness ==
  \E c \in ClientIds :
    \E i, j \in 1..Len(calls[c]) :
      /\ i < j
      /\ calls[c][i].type = "brand_state" /\ calls[c][i].brandId = "brandA"
      /\ calls[c][i].k >= 1
      /\ calls[c][j].type \in PublishTypes /\ calls[c][j].ok
      /\ calls[c][j].brandId = "brandA"

\* The cognitiveState a request finds: the stored session's, or that of the
\* session createBrandSession makes for it.
CognitiveBefore(b) ==
  IF b \in DOMAIN brandSessions THEN brandSessions[b].cognitiveState
  ELSE DefaultCognitiveState

\* The step answers the cognitive-state request r with success.
CognitiveAccepted(r) ==
  Handled(r) /\ r.kind = "cognitive" /\ out'.op = "cognitive" /\ out'.status = 200

\* C13, as claimed: a cognitive-state request that omits analytical,
\* intuitive or efficiency leaves that field of the session's cognitiveState
\* at the value it had before the request.
C13_PartialUpdate ==
  [][\A r \in pending :
       CognitiveAccepted(r) =>
         LET old == CognitiveBefore(r.body.brandId)
             new == brandSessions'[r.body.brandId].cognitiveState
         IN /\ r.body.analytical = Absent => new.analytical = old.analytical
            /\ r.body.intuitive = Absent => new.intuitive = old.intuitive
            /\ r.body.efficiency = Absent => new.efficiency = old.efficiency]_vars

\* C14, as claimed: a cognitive-state request without a context leaves
\* cognitiveState.context as it was, and one with a context replaces it.
C14_ContextKept ==
  [][\A r \in pending :
       CognitiveAccepted(r) =>
         brandSessions'[r.body.brandId].cognitiveState.context =
           IF r.body.context = NoContext
           THEN CognitiveBefore(r.body.brandId).context
           ELSE r.body.context]_vars

\* C14: a cognitive-state request with a context sets cognitiveState.context
\* to it, and one without a context sets it to the empty object, whatever the
\* context was before.
C14_ContextReplaced ==
  [][\A r \in pending :
       CognitiveAccepted(r) =>
         brandSessions'[r.body.brandId].cognitiveState.context =
           IF r.body.context = NoContext THEN EmptyContext ELSE r.body.context]_vars

C14_Witness ==
  /\ out.op = "cognitive"
  /\ out.status = 200
  /\ out.brandId = "brandA"
  /\ created["brandA"] = 1
  /\ brandSessions["brandA"].cognitiveState.context = EmptyContext
  /\ brandSessions["brandA"].cognitiveState.intuitive = 40

\* C15, as claimed: a dialogue submission answered with success adds one
\* entry to the dialogueLog of its session, and the entries already there
\* stay in place.
C15_AppendDialogue ==
  [][\A r \in pending :
       (/\ Handled(r) /\ r.kind = "dialogue" /\ out'.status = 200
        /\ r.body.brandId \in DOMAIN brandSessions
        /\ r.body.brandId \in DOMAIN brandSessions')
         => LET old == DialogueLog(brandSessions[r.body.brandId])
                new == DialogueLog(brandSessions'[r.body.brandId])
            IN /\ Len(new) = Len(old) + 1
               /\ SubSeq(new, 1, Len(old)) = old]_vars

\* C16, as claimed: after a workshop, cognitive-state or dialogue request
\* for a session id has been answered with success, brandSessions holds a
\* session of that id.
C16_CreatesSession ==
  [][\A r \in pending :
       (Handled(r) /\ out'.status = 200 /\ r.body.brandId \in SessionIds)
         => r.body.brandId \in DOMAIN brandSessions']_vars

\* C17, as claimed: a request whose body has no brandId is rejected: it is
\* not answered with success, no connection is sent anything and no session
\* changes.
C17_Rejected ==
  [][\A r \in pending :
       (Handled(r) /\ r.body.brandId = Undefined)
         => /\ out'.status # 200
            /\ out'.delivered = {}
            /\ brandSessions' = brandSessions]_vars

\* C18, as claimed: a workshop request that ends in an error leaves the
\* stored session, which is what every later read and join returns, as it
\* was before the request (for an unseen id, as createBrandSession makes
\* it): none of its signals is applied.
C18_Atomic ==
  [][\A r \in pending :
       (/\ Handled(r) /\ r.kind = "workshop" /\ out'.status = 500
        /\ r.body.brandId \in SessionIds
        /\ r.body.brandId \in DOMAIN brandSessions')
         => brandSessions'[r.body.brandId] =
              IF r.body.brandId \in DOMAIN brandSessions
              THEN brandSessions[r.body.brandId]
              ELSE NewSession(r.body.brandId)]_vars

\* C19: a join_brand naming a session id is answered by one sendToClient
\* call, for the joining connection and no other, of a brand_state message
\* whose state is the session as stored when the frame arrived, or the
\* default session, then stored, when the id was unseen.
C19_JoinSnapshot ==
  [][(events' = events + 1 /\ out'.op = "join" /\ out'.brandId \in SessionIds)
       => /\ out'.message.type = "brand_state"
          /\ out'.message.brandId = out'.brandId
          /\ out'.message.state =
               IF out'.brandId \in DOMAIN brandSessions
               THEN brandSessions[out'.brandId]
               ELSE NewSession(out'.brandId)
          /\ out'.brandId \in DOMAIN brandSessions'
          /\ brandSessions'[out'.brandId] = out'.message.state
          /\ out'.delivered \cup out'.failed = {out'.client}]_vars

C19_Witness ==
  /\ out.op = "join"
  /\ out.message.type = "brand_state"
  /\ out.delivered = {out.client}
  /\ out.message.state # NewSession(out.brandId)
  /\ \E c \in ClientIds \ {out.client} :
       joined[c] = out.brandId /\ readyState[c] = "OPEN"

\* C20, as claimed: after every answered request, a connection that is open,
\* whose latest join_brand named session s and every send to which has gone
\* through shows the state that the server holds for s.
C20_Synchronized ==
  \A c \in ClientIds :
    (/\ out.op \in {"workshop", "cognitive", "dialogue"}
     /\ readyState[c] = "OPEN"
     /\ joined[c] \in SessionIds
     /\ c \in Subscribed(joined[c])
     /\ joined[c] \in DOMAIN brandSessions
     /\ \A i \in 1..Len(calls[c]) : calls[c][i].ok)
      => view[c] = brandSessions[joined[c]]

\* C21: a workshop or cognitive-state request for session A leaves every
\* other stored session as it was and sends nothing to a connection whose
\* brandId is not A.
C21_OtherSessions ==
  [][\A r \in pending :
       (Handled(r) /\ r.kind \in {"workshop", "cognitive"})
         => /\ \A b \in (DOMAIN brandSessions) \ {r.body.brandId} :
                 /\ b \in DOMAIN brandSessions'
                 /\ brandSessions'[b] = brandSessions[b]
            /\ \A c \in DOMAIN clients :
                 clients[c].brandId # r.body.brandId
                   => c \notin out'.delivered \cup out'.failed]_vars

C21_Witness ==
  /\ out.op = "workshop"
  /\ out.status = 200
  /\ out.brandId = "brandA"
  /\ "brandB" \in DOMAIN brandSessions
  /\ brandSessions["brandB"] # NewSession("brandB")
  /\ \E c \in DOMAIN clients :
       /\ clients[c].brandId = "brandB"
       /\ readyState[c] = "OPEN"
       /\ c \notin out.delivered

\* C24: a session stored under key k has id k; a stored session stays in
\* brandSessions and keeps its id in every step.
C24_SessionIds ==
  /\ [](\A k \in DOMAIN brandSessions : brandSessions[k].id = k)
  /\ [][\A k \in DOMAIN brandSessions :
          /\ k \in DOMAIN brandSessions'
          /\ brandSessions'[k].id = brandSessions[k].id]_vars

C24_Witness ==
  /\ DOMAIN brandSessions = SessionIds
  /\ brandSessions["brandA"] # NewSession("brandA")
  /\ brandSessions["brandB"] # NewSession("brandB")
  /\ brandSessions["brandA"].id = "brandA"

\* C26, as claimed: a connection whose brandId a join_brand has set is
\* subscribed to a session that brandSessions holds, and a join_brand whose
\* lookup or creation throws leaves the connection's brandId as it was.
C26_JoinedExists ==
  /\ [](\A c \in DOMAIN clients :
          clients[c].brandId # Null => clients[c].brandId \in DOMAIN brandSessions)
  /\ [][(events' = events + 1 /\ out'.op = "join" /\ out'.message = NoMessage)
          => clients' = clients]_vars

\* The dimensions a workshop request for b finds.
DimensionsBefore(b) ==
  IF b \in DOMAIN brandSessions THEN brandSessions[b].dimensions
  ELSE generateInitialDimensions

\* The positions of the dimensions whose name equals the category or
\* contains it, letter case aside.
Matching(dimensions, signal) ==
  IF signal.category = NoCategory THEN {}
  ELSE {i \in 1..Len(dimensions) :
          \/ dimensions[i].name = signal.category
          \/ includes(toLowerCase(dimensions[i].name), toLowerCase(signal.category))}

IsMatched(signal) == Matching(generateInitialDimensions, signal) # {}

\* The step answers r, a workshop request for a session id whose signals
\* are all objects.
SignalsHandled(r) ==
  /\ Handled(r) /\ r.kind = "workshop" /\ out'.op = "workshop"
  /\ r.body.brandId \in SessionIds
  /\ \A k \in 1..Len(r.body.signals) : r.body.signals[k] # NullSignal

\* C22: a workshop request with a signal that matches no dimension is
\* answered with success, and the dimensions after it are those that its
\* matching signals alone give: the unmatched signal changes nothing and the
\* signals after it are applied.
C22_Dropped ==
  [][\A r \in pending :
       (/\ SignalsHandled(r)
        /\ \E k \in 1..Len(r.body.signals) : ~IsMatched(r.body.signals[k]))
         => /\ out'.status = 200
            /\ brandSessions'[r.body.brandId].dimensions =
                 ApplySignals(DimensionsBefore(r.body.brandId),
                              SelectSeq(r.body.signals, IsMatched)).dimensions]_vars

C22_Witness ==
  /\ out.op = "workshop"
  /\ out.status = 200
  /\ out.message.updates.signals = 2
  /\ out.message.newState.dimensions[1].signalStrength = 92
  /\ touched["brandA"][1].n = 1
  /\ \A i \in 2..Len(generateInitialDimensions) :
       out.message.newState.dimensions[i] = generateInitialDimensions[i]

\* C23: a workshop request with one signal, which matches a dimension, sets
\* that dimension's signalStrength to the signal's confidence and its
\* coherence to the smaller of its coherence plus 0.05 and 1.0, and leaves
\* every other dimension as it was.
C23_SignalApplied ==
  [][\A r \in pending :
       (SignalsHandled(r) /\ Len(r.body.signals) = 1 /\ IsMatched(r.body.signals[1]))
         => LET old == DimensionsBefore(r.body.brandId)
                new == brandSessions'[r.body.brandId].dimensions
                hit == Matching(old, r.body.signals[1])
                i == CHOOSE m \in hit : \A n \in hit : m <= n
            IN /\ Len(new) = Len(old)
               /\ new[i].name = old[i].name
               /\ new[i].signalStrength = r.body.signals[1].confidence
               /\ new[i].coherence = Min(old[i].coherence + CoherenceStep, CoherenceCap)
               /\ \A j \in (1..Len(old)) \ {i} : new[j] = old[j]]_vars

C23_Witness ==
  /\ out.op = "workshop"
  /\ out.status = 200
  /\ out.message.updates.signals = 1
  /\ touched["brandA"][1] = [n |-> 1, last |-> 92]
  /\ brandSessions["brandA"].dimensions[1].signalStrength = 92
  /\ brandSessions["brandA"].dimensions[1].coherence =
       generateInitialDimensions[1].coherence + CoherenceStep
  /\ \A i \in 2..Len(generateInitialDimensions) :
       brandSessions["brandA"].dimensions[i] = generateInitialDimensions[i]

\* C25, as claimed: a broadcast reaches no connection that has not sent a
\* join_brand, whatever brandId the request carries.
C25_NeverJoined ==
  Broadcast => \A c \in out.delivered : joined[c] # Null

\* C27: every promise of sendMCPMessage has resolve or reject called at most
\* once, and not at all while its entry is in pendingRequests; a response
\* for a request without an entry, and a timer firing for one, change
\* neither the promises nor the handlers nor the entries.
C27_SettledOnce ==
  /\ [](\A id \in DOMAIN promises :
          /\ promises[id].settles <= 1
          /\ id \in bridge.pendingRequests => promises[id].settles = 0)
  /\ [][(bridgeOut'.op \in {"data", "timeout"} /\ bridgeOut'.effect = "ignored")
          => /\ promises' = promises
             /\ handlers' = handlers
             /\ bridge' = IF bridgeOut'.op = "data" THEN bridge
                          ELSE [bridge EXCEPT !.timers = @ \ {bridgeOut'.id}]]_vars

\* A response arrives for a request that its timer has already rejected.
C27_Witness ==
  /\ bridgeOut.op = "data"
  /\ bridgeOut.effect = "ignored"
  /\ promises[bridgeOut.id] = [method |-> "tools/call", settles |-> 1, by |-> "timeout"]

\* C28: a request with an entry in pendingRequests is eventually settled and
\* its entry removed, and whenever no timer is armed pendingRequests is
\* empty.
C28_EventuallySettled ==
  /\ [](bridge.timers = {} => bridge.pendingRequests = {})
  /\ \A id \in RequestIds :
       (id \in bridge.pendingRequests)
         ~> (/\ id \in DOMAIN promises
             /\ id \notin bridge.pendingRequests
             /\ promises[id].settles = 1)

\* The process has exited without answering; the timers have settled its
\* requests.
C28_Witness ==
  /\ bridge.mcpProcess = Null
  /\ bridge.timers = {}
  /\ bridge.pendingRequests = {}
  /\ DOMAIN promises # {}
  /\ \A id \in DOMAIN promises : promises[id].by = "timeout"

\* C29, as claimed: a step that writes a tools/call message leaves
\* isConnected true.
C29_AfterHandshake ==
  "tools/call" \in bridgeOut.wrote => bridge.isConnected

\* C30, as claimed: a step in which startMCPServer returns true leaves
\* isConnected true.
C30_StartedConnected ==
  bridgeOut.started = "true" => bridge.isConnected

====
